---- MODULE Spec2Model ----
(***************************************************************************)
(* Model of the A* navigation core of EDAcraft (src/code/pathfinder.cpp,   *)
(* src/code/pathfinder.h) driven by the polling loop of src/code/main.cpp. *)
(*                                                                         *)
(* The PathFinder object is the record pf, one field per data member.      *)
(* The driver's locals are cmd (the request returned by nextAction) and    *)
(* reply (the message handed to handleBotFeedback).                        *)
(***************************************************************************)
EXTENDS Integers, Sequences, FiniteSets, TLC

VARIABLES
    pf,        \* the PathFinder object
    cmd,       \* main.cpp: the request returned by nextAction
    reply,     \* main.cpp: the message received from the bot
    pc,        \* main.cpp: position of the polling loop
    tie,       \* how the priority queue orders nodes of equal fCost
    search,    \* locals of a findPath call run one loop iteration at a time
    lastOp,    \* history: the member function called last
    stepReqs,  \* history: step requests emitted since the last setTarget
    retargets, \* history: number of setTarget calls
    world,     \* the bot's side: the agent's real cell and the occupied cells
    fsm        \* the FSM object of src/code/fsm.cpp

vars == <<pf, cmd, reply, pc, tie, search, lastOp, stepReqs, retargets, world, fsm>>

----------------------------------------------------------------------------
(* Position3D and small helpers *)

Position3D(x, y, z) == [x |-> x, y |-> y, z |-> z]

abs(n) == IF n < 0 THEN -n ELSE n

directions == <<"east", "south", "west", "north">>

----------------------------------------------------------------------------
(* Step budget of the state machine.  The program's value is 2000          *)
(* (pathfinder.h:103); the model runs the same comparisons against a       *)
(* scaled-down budget so that exhaustion is reachable.                      *)
ScaledStepBudget == 3

MAX_STEPS == ScaledStepBudget

(* Node cap of one search (pathfinder.cpp:259). *)
MAX_NODES == 10000

----------------------------------------------------------------------------
(* A* search *)

AStarNode(pos) ==
    [position |-> pos, gCost |-> 0, hCost |-> 0, fCost |-> 0,
     parent |-> Position3D(0, 0, 0), hasParent |-> FALSE]

calculateHeuristic(from, to) == abs(from.x - to.x) + abs(from.z - to.z)

(* getNeighbors with the east neighbour also shifted in z. *)
getNeighborsDiagonal(pos) ==
    << Position3D(pos.x + 1, pos.y, pos.z + 1),
       Position3D(pos.x - 1, pos.y, pos.z),
       Position3D(pos.x, pos.y, pos.z + 1),
       Position3D(pos.x, pos.y, pos.z - 1) >>

getNeighbors(pos) ==
    << Position3D(pos.x + 1, pos.y, pos.z),
       Position3D(pos.x - 1, pos.y, pos.z),
       Position3D(pos.x, pos.y, pos.z + 1),
       Position3D(pos.x, pos.y, pos.z - 1) >>

(* isValidPosition that never consults knownObstacles. *)
isValidPositionAlways(pos, knownObstacles) == TRUE

isValidPosition(pos, knownObstacles) == pos \notin knownObstacles

(* The goal test of the search loop. *)
GoalAccepted(position, goal) ==
    \/ position = goal
    \/ abs(position.x - goal.x) <= 2 /\ abs(position.z - goal.z) <= 2

(* std::priority_queue with std::greater<AStarNode>: top() is an element   *)
(* of least fCost.  Which of several least elements it is, is not fixed by *)
(* the comparator.  The open set is kept as the sequence of pushed nodes,  *)
(* oldest first; LeastIndices are the candidates for top().                *)
LeastIndices(openSet) ==
    { i \in 1..Len(openSet) :
        \A j \in 1..Len(openSet) : openSet[i].fCost <= openSet[j].fCost }

(* A whole-search tie-breaking rule: the oldest or the newest candidate. *)
TiePolicies == {"oldest", "newest"}

TopIndex(openSet, t) ==
    LET least == LeastIndices(openSet)
    IN IF t = "oldest"
       THEN CHOOSE i \in least : \A j \in least : i <= j
       ELSE CHOOSE i \in least : \A j \in least : i >= j

RemoveAt(s, i) == SubSeq(s, 1, i - 1) \o SubSeq(s, i + 1, Len(s))

RECURSIVE ParentChain(_, _)
ParentChain(allNodes, current) ==
    IF current \notin DOMAIN allNodes \/ ~allNodes[current].hasParent
    THEN <<current>>
    ELSE <<current>> \o ParentChain(allNodes, allNodes[current].parent)

Reverse(s) == [i \in 1..Len(s) |-> s[Len(s) + 1 - i]]

(* reconstructPath without the final std::reverse. *)
reconstructPathUnreversed(allNodes, goal) == ParentChain(allNodes, goal)

reconstructPath(allNodes, goal) == Reverse(ParentChain(allNodes, goal))

(* One iteration of the neighbour loop (pathfinder.cpp:281-304) on the     *)
(* search state st for the popped node current. *)
Relax(st, current, neighbor, goal, knownObstacles) ==
    IF neighbor \in st.closedSet THEN st
    ELSE IF ~isValidPosition(neighbor, knownObstacles) THEN st
    ELSE LET tentativeGCost == current.gCost + 1
             isNewNode == neighbor \notin DOMAIN st.allNodes
         IN IF isNewNode \/ tentativeGCost < st.allNodes[neighbor].gCost
            THEN LET h == calculateHeuristic(neighbor, goal)
                     neighborNode ==
                        [position |-> neighbor, gCost |-> tentativeGCost,
                         hCost |-> h, fCost |-> tentativeGCost + h,
                         parent |-> current.position, hasParent |-> TRUE]
                 IN [st EXCEPT
                       !.allNodes = [p \in DOMAIN st.allNodes \cup {neighbor} |->
                                       IF p = neighbor THEN neighborNode
                                       ELSE st.allNodes[p]],
                       !.openSet = Append(st.openSet, neighborNode)]
            ELSE st

Expand(st, current, goal, knownObstacles) ==
    LET n  == getNeighbors(current.position)
        s1 == Relax(st, current, n[1], goal, knownObstacles)
        s2 == Relax(s1, current, n[2], goal, knownObstacles)
        s3 == Relax(s2, current, n[3], goal, knownObstacles)
    IN Relax(s3, current, n[4], goal, knownObstacles)

(* One iteration of the while loop (pathfinder.cpp:261-305) popping the     *)
(* node at index i: either the search returns a path, or it goes on.       *)
Iteration(st, i, goal, knownObstacles) ==
    LET current == st.openSet[i]
        popped  == [st EXCEPT !.openSet = RemoveAt(st.openSet, i),
                              !.nodesExplored = st.nodesExplored + 1]
    IN IF current.position \in popped.closedSet
       THEN [returned |-> FALSE, path |-> <<>>, st |-> popped]
       ELSE LET closed == [popped EXCEPT
                             !.closedSet = popped.closedSet \cup {current.position}]
            IN IF GoalAccepted(current.position, goal)
               THEN [returned |-> TRUE,
                     path |-> reconstructPath(closed.allNodes, current.position),
                     st |-> closed]
               ELSE [returned |-> FALSE, path |-> <<>>,
                     st |-> Expand(closed, current, goal, knownObstacles)]

LoopCondition(st) == st.openSet # <<>> /\ st.nodesExplored < MAX_NODES

RECURSIVE SearchLoop(_, _, _, _)
SearchLoop(st, goal, knownObstacles, t) ==
    IF ~LoopCondition(st)
    THEN <<>>
    ELSE LET r == Iteration(st, TopIndex(st.openSet, t), goal, knownObstacles)
         IN IF r.returned THEN r.path
            ELSE SearchLoop(r.st, goal, knownObstacles, t)

SearchStart(start, goal) ==
    LET h == calculateHeuristic(start, goal)
        startNode == [AStarNode(start) EXCEPT !.hCost = h, !.fCost = h]
    IN [openSet |-> <<startNode>>,
        allNodes |-> [p \in {start} |-> startNode],
        closedSet |-> {},
        nodesExplored |-> 0]

findPath(start, goal, knownObstacles, t) ==
    SearchLoop(SearchStart(start, goal), goal, knownObstacles, t)

----------------------------------------------------------------------------
(* JSON values.  A request is a record with the fields nextAction may set;  *)
(* a reply is a record with the fields handleBotFeedback looks at.  A field *)
(* the object does not contain holds Absent (hasPosition / hasXYZ for the    *)
(* coordinates).                                                            *)

Absent == "absent"

Origin == Position3D(0, 0, 0)

NullJson == [action |-> "null", dir |-> Absent, position |-> Origin]

PositionRequest == [action |-> "position", dir |-> Absent, position |-> Origin]

StepRequest(d) == [action |-> "step", dir |-> d, position |-> Origin]

BlockAtRequest(x, y, z) ==
    [action |-> "block_at", dir |-> Absent, position |-> Position3D(x, y, z)]

Json(action, status, type, ok, name, hasPosition, hasXYZ, at) ==
    [action |-> action, status |-> status, type |-> type, ok |-> ok,
     name |-> name, hasPosition |-> hasPosition, hasXYZ |-> hasXYZ, at |-> at]

NoReply == Json(Absent, Absent, Absent, Absent, Absent, FALSE, FALSE, Origin)

contains(msg, key) ==
    CASE key = "action"   -> msg.action # Absent
      [] key = "status"   -> msg.status # Absent
      [] key = "type"     -> msg.type # Absent
      [] key = "ok"       -> msg.ok # Absent
      [] key = "name"     -> msg.name # Absent
      [] key = "position" -> msg.hasPosition
      [] key = "xyz"      -> msg.hasXYZ

----------------------------------------------------------------------------
(* PathFinder *)

PathFinderCtor ==
    [state |-> "Idle",
     currentX |-> 0, currentY |-> 0, currentZ |-> 0,
     target |-> Origin, hasTarget |-> FALSE,
     currentPath |-> <<>>, currentPathIndex |-> 0,
     knownObstacles |-> {}, needsReplan |-> FALSE,
     currentDirection |-> "east", obstacleCheckCount |-> 0,
     stepCount |-> 0, currentDirectionIndex |-> 0,
     searchedWith |-> {}]   \* history: knownObstacles at the last findPath call

(* setTarget that restarts the machine from any state. *)
setTargetRestarting(p, x, y, z) ==
    [p EXCEPT !.target = Position3D(x, y, z),
              !.hasTarget = TRUE,
              !.stepCount = 0,
              !.currentPath = <<>>,
              !.currentPathIndex = 0,
              !.needsReplan = TRUE,
              !.state = "RequestPosition"]

(* setTarget that restarts a machine that is Idle or Done. *)
setTargetRestartingDone(p, x, y, z) ==
    LET q == [p EXCEPT !.target = Position3D(x, y, z),
                       !.hasTarget = TRUE,
                       !.stepCount = 0,
                       !.currentPath = <<>>,
                       !.currentPathIndex = 0,
                       !.needsReplan = TRUE]
    IN IF p.state \in {"Idle", "Done"}
       THEN [q EXCEPT !.state = "RequestPosition"] ELSE q

(* setTarget that also clears knownObstacles. *)
setTargetForgetting(p, x, y, z) ==
    LET q == [p EXCEPT !.target = Position3D(x, y, z),
                       !.hasTarget = TRUE,
                       !.stepCount = 0,
                       !.currentPath = <<>>,
                       !.currentPathIndex = 0,
                       !.needsReplan = TRUE,
                       !.knownObstacles = {}]
    IN IF p.state = "Idle" THEN [q EXCEPT !.state = "RequestPosition"] ELSE q

setTarget(p, x, y, z) ==
    LET q == [p EXCEPT !.target = Position3D(x, y, z),
                       !.hasTarget = TRUE,
                       !.stepCount = 0,
                       !.currentPath = <<>>,
                       !.currentPathIndex = 0,
                       !.needsReplan = TRUE]
    IN IF p.state = "Idle" THEN [q EXCEPT !.state = "RequestPosition"] ELSE q

isComplete(p) == p.state = "Done" \/ p.state = "Idle"

(* The boolean status values of the public interface (pathfinder.h:56-70). *)
ExposedStatus(p) == [isComplete |-> isComplete(p)]

(* isAtTarget with || in place of &&. *)
isAtTargetEitherAxis(p) ==
    LET dx == abs(p.target.x - p.currentX)
        dz == abs(p.target.z - p.currentZ)
    IN dx <= 2 \/ dz <= 2

(* isAtTarget by exact equality of x and z. *)
isAtTargetExact(p) ==
    p.target.x = p.currentX /\ p.target.z = p.currentZ

isAtTarget(p) ==
    LET dx == abs(p.target.x - p.currentX)
        dz == abs(p.target.z - p.currentZ)
    IN dx <= 2 /\ dz <= 2

(* currentPath[currentPathIndex]: the vector is indexed from 0. *)
Waypoint(p) == p.currentPath[p.currentPathIndex + 1]

isAtCurrentWaypoint(p) ==
    IF p.currentPath = <<>> \/ p.currentPathIndex >= Len(p.currentPath)
    THEN FALSE
    ELSE p.currentX = Waypoint(p).x /\ p.currentZ = Waypoint(p).z

(* calculateDirectionToNextWaypoint that always answers "east". *)
calculateDirectionToNextWaypointEast(p) == "east"

calculateDirectionToNextWaypoint(p) ==
    IF p.currentPath = <<>> \/ p.currentPathIndex >= Len(p.currentPath)
    THEN "east"
    ELSE LET dx == Waypoint(p).x - p.currentX
             dz == Waypoint(p).z - p.currentZ
         IN IF abs(dx) > abs(dz) THEN (IF dx > 0 THEN "east" ELSE "west")
            ELSE IF abs(dz) > 0 THEN (IF dz > 0 THEN "south" ELSE "north")
            ELSE "east"

chooseNextDirection(p) ==
    IF p.currentPath = <<>> \/ p.currentPathIndex >= Len(p.currentPath)
    THEN p
    ELSE LET newDirection == calculateDirectionToNextWaypoint(p)
         IN [p EXCEPT !.currentDirection = newDirection,
                      !.currentDirectionIndex =
                          (CHOOSE i \in 1..Len(directions) :
                               directions[i] = newDirection) - 1]

(* The tail of planPath (pathfinder.cpp:236-241) on the object q that       *)
(* holds the path findPath returned.                                        *)
pathPlanned(q) == IF q.currentPath # <<>> THEN chooseNextDirection(q) ELSE q

planPath(p, t) ==
    IF ~p.hasTarget THEN p
    ELSE LET start == Position3D(p.currentX, p.currentY, p.currentZ)
         IN pathPlanned(
                [p EXCEPT !.currentPath = findPath(start, p.target, p.knownObstacles, t),
                          !.currentPathIndex = 0,
                          !.needsReplan = FALSE,
                          !.searchedWith = p.knownObstacles])

(* getFrontBlockPosition that ignores upperBlock. *)
getFrontBlockPositionGround(p, upperBlock) ==
    CASE p.currentDirection = "east"  -> Position3D(p.currentX + 1, p.currentY, p.currentZ)
      [] p.currentDirection = "west"  -> Position3D(p.currentX - 1, p.currentY, p.currentZ)
      [] p.currentDirection = "north" -> Position3D(p.currentX, p.currentY, p.currentZ - 1)
      [] p.currentDirection = "south" -> Position3D(p.currentX, p.currentY, p.currentZ + 1)
      [] OTHER                        -> Position3D(p.currentX, p.currentY, p.currentZ)

(* The cell in front of the bot in the direction of travel. *)
getFrontBlockPosition(p, upperBlock) ==
    LET y == p.currentY + (IF upperBlock THEN 1 ELSE 0)
    IN CASE p.currentDirection = "east"  -> Position3D(p.currentX + 1, y, p.currentZ)
         [] p.currentDirection = "west"  -> Position3D(p.currentX - 1, y, p.currentZ)
         [] p.currentDirection = "north" -> Position3D(p.currentX, y, p.currentZ - 1)
         [] p.currentDirection = "south" -> Position3D(p.currentX, y, p.currentZ + 1)
         [] OTHER                        -> Position3D(p.currentX, y, p.currentZ)

(* addObstacle that records nothing. *)
addObstacleNone(p, pos) == p

addObstacle(p, pos) == [p EXCEPT !.knownObstacles = p.knownObstacles \cup {pos}]

(* stepTowardsWaypoint that advances the cursor without the waypoint test. *)
stepTowardsWaypointEager(q) ==
    LET r == IF q.currentPathIndex < Len(q.currentPath) - 1
             THEN [q EXCEPT !.currentPathIndex = q.currentPathIndex + 1]
             ELSE q
    IN [pf |-> r, action |-> StepRequest(r.currentDirection)]

(* The waypoint check and the step request of the MoveToTarget case        *)
(* (pathfinder.cpp:88-98) on the object q.                                  *)
stepTowardsWaypoint(q) ==
    LET r == IF /\ isAtCurrentWaypoint(q)
                /\ q.currentPathIndex < Len(q.currentPath) - 1
             THEN [q EXCEPT !.currentPathIndex = q.currentPathIndex + 1]
             ELSE q
    IN [pf |-> r, action |-> StepRequest(r.currentDirection)]

(* moveAlongPath without the empty-path test. *)
moveAlongPathBlind(q) == stepTowardsWaypoint(q)

(* The MoveToTarget case from the empty-path test on (pathfinder.cpp:81-98) *)
(* on the object q as the optional planPath call left it.                  *)
moveAlongPath(q) ==
    IF q.currentPath = <<>>
    THEN [pf |-> [q EXCEPT !.state = "Done"], action |-> NullJson]
    ELSE stepTowardsWaypoint(q)

(* nextAction with the budget test stepCount > MAX_STEPS. *)
nextActionOffByOne(p, t) ==
    IF ~p.hasTarget THEN [pf |-> p, action |-> NullJson]
    ELSE CASE p.state = "RequestPosition" ->
                [pf |-> p, action |-> PositionRequest]
           [] p.state = "RequestCurrentPosition" ->
                [pf |-> p, action |-> PositionRequest]
           [] p.state = "MoveToTarget" ->
                IF isAtTarget(p)
                THEN [pf |-> [p EXCEPT !.state = "Done"], action |-> NullJson]
                ELSE IF p.stepCount > MAX_STEPS
                THEN [pf |-> [p EXCEPT !.state = "Done"], action |-> NullJson]
                ELSE moveAlongPath(IF \/ p.needsReplan
                                      \/ p.currentPath = <<>>
                                      \/ p.currentPathIndex >= Len(p.currentPath)
                                   THEN planPath(p, t) ELSE p)
           [] p.state = "CheckObstacle" ->
                LET c == getFrontBlockPosition(p, p.obstacleCheckCount = 1)
                IN [pf |-> p, action |-> BlockAtRequest(c.x, c.y, c.z)]
           [] OTHER -> [pf |-> p, action |-> NullJson]

(* nextAction returns the request and leaves the object in state .pf *)
nextAction(p, t) ==
    IF ~p.hasTarget THEN [pf |-> p, action |-> NullJson]
    ELSE CASE p.state = "RequestPosition" ->
                [pf |-> p, action |-> PositionRequest]
           [] p.state = "RequestCurrentPosition" ->
                [pf |-> p, action |-> PositionRequest]
           [] p.state = "MoveToTarget" ->
                IF isAtTarget(p)
                THEN [pf |-> [p EXCEPT !.state = "Done"], action |-> NullJson]
                ELSE IF p.stepCount >= MAX_STEPS
                THEN [pf |-> [p EXCEPT !.state = "Done"], action |-> NullJson]
                ELSE moveAlongPath(IF \/ p.needsReplan
                                      \/ p.currentPath = <<>>
                                      \/ p.currentPathIndex >= Len(p.currentPath)
                                   THEN planPath(p, t) ELSE p)
           [] p.state = "CheckObstacle" ->
                LET c == getFrontBlockPosition(p, p.obstacleCheckCount = 1)
                IN [pf |-> p, action |-> BlockAtRequest(c.x, c.y, c.z)]
           [] OTHER -> [pf |-> p, action |-> NullJson]

(* stepSuccessful that takes every step for done. *)
stepSuccessfulAssumed(msg) == TRUE

(* ok is a JSON boolean ("bool_true", "bool_false") or a JSON string         *)
(* ("str_true", "str_false"); only these decide stepSuccessful.             *)
stepSuccessful(msg) ==
    IF contains(msg, "ok")
    THEN (msg.ok = "bool_true" \/ msg.ok = "str_true")
    ELSE FALSE

(* The test that routes a message to the step branch (pathfinder.cpp:161). *)
IsStepReplyAnyAction(msg) == contains(msg, "action")

IsStepReply(msg) == contains(msg, "action") /\ msg.action = "step"

(* The else branch of a step reply (pathfinder.cpp:191-194). *)
StepFailedToProbe(p) == [p EXCEPT !.obstacleCheckCount = 0, !.state = "CheckObstacle"]

StepFailed(p) == [p EXCEPT !.state = "RequestCurrentPosition"]

(* The position update with north and south exchanged. *)
ApplyDirectionMirrored(p) ==
    CASE p.currentDirection = "east"  -> [p EXCEPT !.currentX = p.currentX + 1]
      [] p.currentDirection = "west"  -> [p EXCEPT !.currentX = p.currentX - 1]
      [] p.currentDirection = "north" -> [p EXCEPT !.currentZ = p.currentZ + 1]
      [] p.currentDirection = "south" -> [p EXCEPT !.currentZ = p.currentZ - 1]
      [] OTHER -> p

ApplyDirection(p) ==
    CASE p.currentDirection = "east"  -> [p EXCEPT !.currentX = p.currentX + 1]
      [] p.currentDirection = "west"  -> [p EXCEPT !.currentX = p.currentX - 1]
      [] p.currentDirection = "north" -> [p EXCEPT !.currentZ = p.currentZ - 1]
      [] p.currentDirection = "south" -> [p EXCEPT !.currentZ = p.currentZ + 1]
      [] OTHER -> p

handleBotFeedback(p, msg, t) ==
    IF ~contains(msg, "action") /\ ~contains(msg, "status") /\ ~contains(msg, "type")
    THEN p
    ELSE CASE p.state \in {"RequestPosition", "RequestCurrentPosition"} ->
                IF \/ contains(msg, "status") /\ msg.status = "ok"
                   \/ contains(msg, "type") /\ msg.type = "position"
                THEN LET q == IF contains(msg, "position") \/ contains(msg, "xyz")
                              THEN [p EXCEPT !.currentX = msg.at.x,
                                             !.currentY = msg.at.y,
                                             !.currentZ = msg.at.z]
                              ELSE p
                     IN IF p.state = "RequestPosition"
                        THEN [planPath(q, t) EXCEPT !.state = "MoveToTarget"]
                        ELSE [q EXCEPT !.obstacleCheckCount = 0,
                                       !.state = "CheckObstacle"]
                ELSE p
           [] p.state = "MoveToTarget" ->
                IF IsStepReply(msg)
                THEN IF stepSuccessful(msg)
                     THEN chooseNextDirection(
                              ApplyDirection([p EXCEPT !.stepCount = p.stepCount + 1]))
                     ELSE StepFailed(p)
                ELSE p
           [] p.state = "CheckObstacle" ->
                IF \/ contains(msg, "action") /\ msg.action = "block_at"
                   \/ contains(msg, "type") /\ msg.type = "block_at"
                THEN LET q == IF contains(msg, "name")
                              THEN [addObstacle(p, getFrontBlockPosition(p, p.obstacleCheckCount = 1))
                                      EXCEPT !.needsReplan = TRUE]
                              ELSE p
                         r == [q EXCEPT !.obstacleCheckCount = q.obstacleCheckCount + 1]
                     IN IF r.obstacleCheckCount >= 2
                        THEN [planPath(r, t) EXCEPT !.state = "MoveToTarget"]
                        ELSE r
                ELSE p
           [] OTHER -> p


----------------------------------------------------------------------------
(* Inputs *)

(* Number of setTarget calls in one run. *)
MaxRetargets == 2

(* Targets handed to setTarget. *)
Targets == { Position3D(3, 0, 0), Position3D(0, 5, -3) }

(* Cells a position reply may report. *)
ReportedCells == { Position3D(0, 0, 0), Position3D(1, 0, 0), Position3D(0, 0, -1) }

(* Cells the bot may report as occupied. *)
Occupiable == { Position3D(1, 0, 0), Position3D(1, 1, 0), Position3D(0, 0, -1) }

PositionReplies ==
    { Json(Absent, tag[1], tag[2], Absent, Absent, c[1], c[2], at) :
        tag \in { <<"ok", Absent>>, <<Absent, "position">>, <<"position", Absent>> },
        c \in { <<TRUE, FALSE>>, <<FALSE, TRUE>> },
        at \in ReportedCells }
    \cup
    { Json(Absent, tag[1], tag[2], Absent, Absent, FALSE, FALSE, Origin) :
        tag \in { <<"ok", Absent>>, <<Absent, "position">>, <<"position", Absent>> } }

StepReplies ==
    { Json("step", Absent, Absent, ok, Absent, FALSE, FALSE, Origin) :
        ok \in { Absent, "bool_true", "bool_false", "str_true", "str_false" } }

ProbeReplies ==
    { Json(tag[1], Absent, tag[2], Absent, name, FALSE, FALSE, Origin) :
        tag \in { <<"block_at", Absent>>, <<Absent, "block_at">> },
        name \in { Absent, "stone" } }

(* An object with none of the fields action, status, type. *)
UntaggedReplies == { [NoReply EXCEPT !.ok = "bool_true"] }

Messages == PositionReplies \cup StepReplies \cup ProbeReplies \cup UntaggedReplies

NoSearch == [phase |-> "none"]

(* No world is attached: the bot may answer anything. *)
NoWorld == [agent |-> Origin, blocks |-> {}]

(* No FSM object is constructed. *)
NoFsm == [state |-> "none"]

----------------------------------------------------------------------------
(* The polling loop of main.cpp around the PathFinder *)

Min(a, b) == IF a < b THEN a ELSE b

Init ==
    /\ pf = PathFinderCtor
    /\ cmd = NullJson
    /\ reply = NoReply
    /\ pc = "produce"
    /\ tie \in TiePolicies
    /\ search = NoSearch
    /\ lastOp = "PathFinder"
    /\ stepReqs = 0
    /\ retargets = 0
    /\ world = NoWorld
    /\ fsm = NoFsm

(* The owner of the object calls setTarget between two loop iterations. *)
SetTargetCall ==
    /\ pc = "produce"
    /\ retargets < MaxRetargets
    /\ \E tgt \in Targets : pf' = setTarget(pf, tgt.x, tgt.y, tgt.z)
    /\ lastOp' = "setTarget"
    /\ stepReqs' = 0
    /\ retargets' = retargets + 1
    /\ UNCHANGED <<cmd, reply, pc, tie, search, world, fsm>>

(* Produce without the test of main.cpp:33: a reply is awaited even for a   *)
(* null cmd.                                                               *)
ProduceAwaitingAlways ==
    /\ pc = "produce"
    /\ \E r \in { nextAction(pf, tie) } :
          /\ pf' = r.pf
          /\ cmd' = r.action
          /\ pc' = "consume"
          /\ stepReqs' = IF r.action.action = "step"
                         THEN Min(stepReqs + 1, MAX_STEPS + 1) ELSE stepReqs
    /\ reply' = NoReply
    /\ lastOp' = "nextAction"
    /\ UNCHANGED <<tie, search, retargets, world, fsm>>

(* main.cpp:30-33: cmd = nextAction(); a null cmd skips the round trip. *)
Produce ==
    /\ pc = "produce"
    /\ \E r \in { nextAction(pf, tie) } :
          /\ pf' = r.pf
          /\ cmd' = r.action
          /\ pc' = IF r.action = NullJson THEN "produce" ELSE "consume"
          /\ stepReqs' = IF r.action.action = "step"
                         THEN Min(stepReqs + 1, MAX_STEPS + 1) ELSE stepReqs
    /\ reply' = NoReply
    /\ lastOp' = "nextAction"
    /\ UNCHANGED <<tie, search, retargets, world, fsm>>

Feed(msg) ==
    /\ pc = "consume"
    /\ reply' = msg
    /\ pf' = handleBotFeedback(pf, msg, tie)
    /\ pc' = "produce"
    /\ lastOp' = "handleBotFeedback"
    /\ UNCHANGED <<cmd, tie, search, stepReqs, retargets, world, fsm>>

(* The cell the outstanding block_at request asks about. *)
Probed == cmd.position

(* A reply the bot may give: any message, except that to a block_at request *)
(* it names a block only when the cell asked about is in Occupiable.        *)
Deliverable(msg) ==
    (contains(msg, "name") /\ cmd.action = "block_at") => Probed \in Occupiable

(* main.cpp:40-49 with a bot that may answer anything. *)
Consume == \E msg \in Messages : Deliverable(msg) /\ Feed(msg)

(* main.cpp:50-53: no reply or an unparsable one ends the loop. *)
CommunicationError ==
    /\ pc = "consume"
    /\ pc' = "exit"
    /\ UNCHANGED <<pf, cmd, reply, tie, search, lastOp, stepReqs, retargets, world, fsm>>

Next == SetTargetCall \/ Produce \/ Consume \/ CommunicationError

Spec == Init /\ [][Next]_vars

(* The same loop with a bot that keeps to the protocol: every request gets *)
(* a reply of its own kind that carries the fields the handler reads.      *)
Answers(request) ==
    CASE request.action = "position" ->
            { m \in PositionReplies :
                /\ m.status = "ok" \/ m.type = "position"
                /\ m.hasPosition \/ m.hasXYZ }
      [] request.action = "step" ->
            { m \in StepReplies : contains(m, "ok") }
      [] request.action = "block_at" ->
            { m \in ProbeReplies : contains(m, "name") => request.position \in Occupiable }
      [] OTHER -> {}

ConsumeAnswer == \E msg \in Answers(cmd) : Feed(msg)

ProtocolNext == SetTargetCall \/ Produce \/ ConsumeAnswer

ProtocolSpec == Init /\ [][ProtocolNext]_vars

(* The same loop with a caller that also hands messages to                  *)
(* handleBotFeedback when the machine is Done and no request is             *)
(* outstanding.                                                             *)
FeedbackWhenDone ==
    /\ pc = "produce"
    /\ pf.state = "Done"
    /\ \E msg \in Messages :
          /\ reply' = msg
          /\ pf' = handleBotFeedback(pf, msg, tie)
    /\ lastOp' = "handleBotFeedback"
    /\ UNCHANGED <<cmd, pc, tie, search, stepReqs, retargets, world, fsm>>

CallerNext == Next \/ FeedbackWhenDone

CallerSpec == Init /\ [][CallerNext]_vars

(* The polling loop for one target, set before the loop starts and drawn    *)
(* from targets on every side of the origin.                                *)
DirectedTargets ==
    { Position3D(3, 0, 0), Position3D(-3, 0, 0), Position3D(0, 0, 3),
      Position3D(0, 5, -3), Position3D(3, 0, 3), Position3D(-3, 0, -4) }

DirectedInit ==
    /\ \E tgt \in DirectedTargets :
          pf = setTarget(PathFinderCtor, tgt.x, tgt.y, tgt.z)
    /\ cmd = NullJson
    /\ reply = NoReply
    /\ pc = "produce"
    /\ tie \in TiePolicies
    /\ search = NoSearch
    /\ lastOp = "setTarget"
    /\ stepReqs = 0
    /\ retargets = 1
    /\ world = NoWorld
    /\ fsm = NoFsm

DirectedNext == Produce \/ Consume \/ CommunicationError

DirectedSpec == DirectedInit /\ [][DirectedNext]_vars


----------------------------------------------------------------------------
(* findPath on its own: the inputs are drawn in the initial state and the   *)
(* while loop runs one iteration per step, top() being any node of least    *)
(* fCost.                                                                   *)

SearchStarts == { Origin, Position3D(1, 0, 0) }

SearchGoals ==
    { Position3D(3, 0, 0), Position3D(3, 0, 1), Position3D(0, 5, -3),
      Position3D(1, 0, 1), Position3D(4, 0, -2) }

SearchObstacleCells ==
    { Position3D(1, 0, 0), Position3D(-1, 0, 0), Position3D(0, 0, 1),
      Position3D(0, 0, -1), Position3D(1, 0, 1), Position3D(0, 1, -1) }

(* The first example scenario of the specification: start, target, no     *)
(* obstacles.                                                               *)
ScenarioStart == Position3D(0, 100, 0)

ScenarioGoal == Position3D(3, 100, 0)

SearchInputs ==
    (SearchStarts \X SearchGoals \X SUBSET SearchObstacleCells)
        \cup { <<ScenarioStart, ScenarioGoal, {}>> }

SearchInit ==
    /\ pf = PathFinderCtor
    /\ cmd = NullJson
    /\ reply = NoReply
    /\ pc = "findPath"
    /\ tie = "any"
    /\ lastOp = "PathFinder"
    /\ stepReqs = 0
    /\ retargets = 0
    /\ world = NoWorld
    /\ fsm = NoFsm
    /\ \E in \in SearchInputs :
          search = [phase |-> "loop", start |-> in[1], goal |-> in[2],
                    knownObstacles |-> in[3],
                    st |-> SearchStart(in[1], in[2]), path |-> <<>>]

SearchIterate ==
    /\ search.phase = "loop"
    /\ LoopCondition(search.st)
    /\ \E i \in LeastIndices(search.st.openSet) :
          LET r == Iteration(search.st, i, search.goal, search.knownObstacles)
          IN search' = [search EXCEPT
                          !.phase = IF r.returned THEN "returned" ELSE "loop",
                          !.st = r.st,
                          !.path = r.path]
    /\ UNCHANGED <<pf, cmd, reply, pc, tie, lastOp, stepReqs, retargets, world, fsm>>

SearchFails ==
    /\ search.phase = "loop"
    /\ ~LoopCondition(search.st)
    /\ search' = [search EXCEPT !.phase = "returned", !.path = <<>>]
    /\ UNCHANGED <<pf, cmd, reply, pc, tie, lastOp, stepReqs, retargets, world, fsm>>

SearchNext == SearchIterate \/ SearchFails

SearchSpec == SearchInit /\ [][SearchNext]_vars


(* The polling loop against a truthful world: world.agent is the cell the    *)
(* agent stands in and world.blocks are the occupied cells.  A position     *)
(* request is answered with the agent's cell, a step moves the agent one    *)
(* cell and is answered ok exactly when the destination is not occupied, a  *)
(* block_at request is answered with a name exactly when the cell is        *)
(* occupied.                                                                *)
WorldStarts == { Origin, Position3D(1, 0, -1) }

WorldTargets ==
    { Position3D(3, 0, 0), Position3D(-3, 0, 0), Position3D(0, 5, -3),
      Position3D(0, 0, 3) }

WorldBlockCells ==
    { Position3D(1, 0, 0), Position3D(-1, 0, 0), Position3D(0, 0, -1),
      Position3D(2, 0, -1), Position3D(1, 1, 0) }

Destination(c, d) ==
    CASE d = "east"  -> Position3D(c.x + 1, c.y, c.z)
      [] d = "west"  -> Position3D(c.x - 1, c.y, c.z)
      [] d = "north" -> Position3D(c.x, c.y, c.z - 1)
      [] d = "south" -> Position3D(c.x, c.y, c.z + 1)
      [] OTHER       -> c

(* The world after it carried out the request. *)
WorldAfter(w, request) ==
    IF request.action = "step" /\ Destination(w.agent, request.dir) \notin w.blocks
    THEN [w EXCEPT !.agent = Destination(w.agent, request.dir)]
    ELSE w

(* The replies a truthful bot may give to the request in world w. *)
TruthfulAnswers(w, request) ==
    CASE request.action = "position" ->
            { Json(Absent, "ok", Absent, Absent, Absent, FALSE, TRUE, w.agent),
              Json(Absent, Absent, "position", Absent, Absent, TRUE, FALSE, w.agent) }
      [] request.action = "step" ->
            { Json("step", Absent, Absent,
                   IF Destination(w.agent, request.dir) \notin w.blocks
                   THEN "bool_true" ELSE "bool_false",
                   Absent, FALSE, FALSE, Origin) }
      [] request.action = "block_at" ->
            { Json("block_at", Absent, Absent, Absent,
                   IF request.position \in w.blocks THEN "stone" ELSE Absent,
                   FALSE, FALSE, Origin) }
      [] OTHER -> {}

(* main.cpp:40-49 with the truthful bot: the bot acts, replies, and the     *)
(* reply is handed to handleBotFeedback.                                    *)
Actuate ==
    /\ pc = "consume"
    /\ \E msg \in TruthfulAnswers(world, cmd) :
          /\ reply' = msg
          /\ pf' = handleBotFeedback(pf, msg, tie)
    /\ world' = WorldAfter(world, cmd)
    /\ pc' = "produce"
    /\ lastOp' = "handleBotFeedback"
    /\ UNCHANGED <<cmd, tie, search, stepReqs, retargets, fsm>>

WorldInit ==
    /\ \E tgt \in WorldTargets :
          pf = setTarget(PathFinderCtor, tgt.x, tgt.y, tgt.z)
    /\ cmd = NullJson
    /\ reply = NoReply
    /\ pc = "produce"
    /\ tie \in TiePolicies
    /\ search = NoSearch
    /\ lastOp = "setTarget"
    /\ stepReqs = 0
    /\ retargets = 1
    /\ \E a \in WorldStarts, b \in SUBSET WorldBlockCells :
          world = [agent |-> a, blocks |-> b]
    /\ fsm = NoFsm

WorldNext == Produce \/ Actuate

WorldSpec == WorldInit /\ [][WorldNext]_vars

(* The same loop in a world without blocks, for starts and targets well     *)
(* within the step budget.  The machine faces east at every waypoint it     *)
(* reaches, so a waypoint to the east costs it one step and a waypoint in   *)
(* any other direction up to three (east, back, and the step proper);       *)
(* StepCost is that cost summed over the planned path, and the inputs are   *)
(* those whose StepCost fits into MAX_STEPS.                                *)
FreeStarts == { Origin, Position3D(1, 0, -1), Position3D(0, 64, 0) }

FreeTargets ==
    { Position3D(3, 0, 0), Position3D(-3, 0, 0), Position3D(0, 0, 3),
      Position3D(0, 5, -3), Position3D(2, 0, 1), Position3D(-3, 0, 2),
      Position3D(4, 0, -2), Position3D(1, 0, -4), Position3D(-2, 64, 3),
      Position3D(5, 0, 0), Position3D(4, 64, 1), Position3D(6, 0, -1) }

RECURSIVE StepCost(_)
StepCost(path) ==
    IF Len(path) <= 1 THEN 0
    ELSE (IF path[2].x = path[1].x + 1 THEN 1 ELSE 3) + StepCost(Tail(path))

FreeInputs ==
    { in \in FreeStarts \X FreeTargets \X TiePolicies :
        StepCost(findPath(in[1], in[2], {}, in[3])) <= MAX_STEPS }

FreeInit ==
    /\ \E in \in FreeInputs :
          /\ pf = setTarget(PathFinderCtor, in[2].x, in[2].y, in[2].z)
          /\ world = [agent |-> in[1], blocks |-> {}]
          /\ tie = in[3]
    /\ cmd = NullJson
    /\ reply = NoReply
    /\ pc = "produce"
    /\ search = NoSearch
    /\ lastOp = "setTarget"
    /\ stepReqs = 0
    /\ retargets = 1
    /\ fsm = NoFsm

(* One turn of the while loop of main.cpp (25-55): the program passes from  *)
(* producing a request to consuming its reply or back.  The loop never      *)
(* stops taking turns while the machine is not Done.                        *)
LoopTurn ==
    /\ pf.state # "Done"
    /\ pc' = IF pc = "produce" THEN "consume" ELSE "produce"

FreeWorldSpec == FreeInit /\ [][WorldNext]_vars /\ WF_pc(LoopTurn)

(* The polling loop with a bot that rejects every step and whose position  *)
(* replies move the tracked cell among SurroundReported, so that the       *)
(* east-facing probes can record all four neighbours of the origin.        *)
SurroundReported ==
    { Origin, Position3D(-2, 0, 0), Position3D(-1, 0, 1), Position3D(-1, 0, -1) }

SurroundTarget == Position3D(3, 0, 0)

SurroundOccupiable ==
    { Position3D(1, 0, 0), Position3D(-1, 0, 0), Position3D(0, 0, 1),
      Position3D(0, 0, -1) }

SurroundAnswers(request) ==
    CASE request.action = "position" ->
            { Json(Absent, Absent, "position", Absent, Absent, TRUE, FALSE, at) :
                at \in SurroundReported }
      [] request.action = "step" ->
            { m \in StepReplies : m.ok = "bool_false" }
      [] request.action = "block_at" ->
            { m \in ProbeReplies :
                /\ m.action = "block_at"
                /\ contains(m, "name") => request.position \in SurroundOccupiable }
      [] OTHER -> {}

ConsumeSurround == \E msg \in SurroundAnswers(cmd) : Feed(msg)

SurroundInit ==
    /\ pf = setTarget(PathFinderCtor, SurroundTarget.x, SurroundTarget.y,
                      SurroundTarget.z)
    /\ cmd = NullJson
    /\ reply = NoReply
    /\ pc = "produce"
    /\ tie \in TiePolicies
    /\ search = NoSearch
    /\ lastOp = "setTarget"
    /\ stepReqs = 0
    /\ retargets = 1
    /\ world = NoWorld
    /\ fsm = NoFsm

SurroundNext == Produce \/ ConsumeSurround

(* findPath step by step, and findPath inside the polling loop. *)
ExhaustionInit == SearchInit \/ SurroundInit

ExhaustionNext == SearchIterate \/ SearchFails \/ Produce \/ ConsumeSurround

ExhaustionSpec == ExhaustionInit /\ [][ExhaustionNext]_vars

----------------------------------------------------------------------------
(* The FSM of src/code/fsm.cpp, the object main.cpp constructs and polls.   *)
(* The scan reaches 3 cells each way and the step limit is 100 in the code; *)
(* both are scaled.  originX/Y/Z and checkX/Y/Z are written by the          *)
(* constructor and setOrigin only and never read; they are left out.        *)

ScaledScanRadius == 1

ScaledFsmStepLimit == 3

SCAN_RADIUS == ScaledScanRadius

FSM_MAX_STEPS == ScaledFsmStepLimit

FSMCtor ==
    [state |-> "RequestPosition",
     currentX |-> 0, currentY |-> 0, currentZ |-> 0,
     targetDirection |-> "east",
     stepCount |-> 0,
     preStepX |-> 0, preStepY |-> 0, preStepZ |-> 0,
     scanX |-> 0, scanY |-> 0, scanZ |-> 0,
     scanStartX |-> 0, scanStartY |-> 0, scanStartZ |-> 0,
     scanEndX |-> 0, scanEndY |-> 0, scanEndZ |-> 0,
     scanningActive |-> FALSE,
     asked |-> <<>>]   \* history: the cells asked about in the current scan

(* The set-up of a scan (fsm.cpp:59-71). *)
FSM_startScan(f) ==
    [f EXCEPT !.scanStartX = f.currentX - SCAN_RADIUS,
              !.scanStartY = f.currentY - SCAN_RADIUS,
              !.scanStartZ = f.currentZ - SCAN_RADIUS,
              !.scanEndX = f.currentX + SCAN_RADIUS,
              !.scanEndY = f.currentY + SCAN_RADIUS,
              !.scanEndZ = f.currentZ + SCAN_RADIUS,
              !.scanX = f.currentX - SCAN_RADIUS,
              !.scanY = f.currentY - SCAN_RADIUS,
              !.scanZ = f.currentZ - SCAN_RADIUS,
              !.scanningActive = TRUE]

(* The block_at request for the scan cursor of g (fsm.cpp:77-81). *)
FSM_scanRequest(g) == [fsm |-> g, action |-> BlockAtRequest(g.scanX, g.scanY, g.scanZ)]

(* FSM::nextAction returns the request and leaves the object in state .fsm *)
FSM_nextAction(f) ==
    CASE f.state = "RequestPosition" -> [fsm |-> f, action |-> PositionRequest]
      [] f.state = "RequestCurrentPosition" -> [fsm |-> f, action |-> PositionRequest]
      [] f.state = "MoveToTarget" ->
            IF f.stepCount >= FSM_MAX_STEPS
            THEN [fsm |-> [f EXCEPT !.state = "Done"], action |-> NullJson]
            ELSE [fsm |-> [f EXCEPT !.preStepX = f.currentX,
                                    !.preStepY = f.currentY,
                                    !.preStepZ = f.currentZ],
                  action |-> StepRequest(f.targetDirection)]
      [] f.state = "ScanForBlocks" ->
            FSM_scanRequest(IF ~f.scanningActive THEN FSM_startScan(f) ELSE f)
      [] OTHER -> [fsm |-> f, action |-> NullJson]

(* changeDirection that turns the other way round. *)
FSM_changeDirectionCounterClockwise(f) ==
    CASE f.targetDirection = "east" ->
            [f EXCEPT !.targetDirection = "north", !.state = "MoveToTarget"]
      [] f.targetDirection = "north" ->
            [f EXCEPT !.targetDirection = "west", !.state = "MoveToTarget"]
      [] f.targetDirection = "west" ->
            [f EXCEPT !.targetDirection = "south", !.state = "MoveToTarget"]
      [] f.targetDirection = "south" ->
            [f EXCEPT !.targetDirection = "east", !.state = "MoveToTarget"]
      [] OTHER -> [f EXCEPT !.state = "Idle"]

FSM_changeDirection(f) ==
    CASE f.targetDirection = "east" ->
            [f EXCEPT !.targetDirection = "south", !.state = "MoveToTarget"]
      [] f.targetDirection = "south" ->
            [f EXCEPT !.targetDirection = "west", !.state = "MoveToTarget"]
      [] f.targetDirection = "west" ->
            [f EXCEPT !.targetDirection = "north", !.state = "MoveToTarget"]
      [] f.targetDirection = "north" ->
            [f EXCEPT !.targetDirection = "east", !.state = "MoveToTarget"]
      [] OTHER -> [f EXCEPT !.state = "Idle"]

(* The test of a position reply (fsm.cpp:106-107, 167-168). *)
FSM_positionAccepted(msg) ==
    \/ contains(msg, "status") /\ msg.status = "ok"
    \/ contains(msg, "type") /\ msg.type = "position"

(* The coordinates of a position reply, if it has any (fsm.cpp:109-117). *)
FSM_readPosition(f, msg) ==
    IF contains(msg, "position") \/ contains(msg, "xyz")
    THEN [f EXCEPT !.currentX = msg.at.x,
                   !.currentY = msg.at.y,
                   !.currentZ = msg.at.z]
    ELSE f

(* The position update of a successful step (fsm.cpp:143-151). *)
FSM_applyDirection(f) ==
    CASE f.targetDirection = "east"  -> [f EXCEPT !.currentX = f.currentX + 1]
      [] f.targetDirection = "west"  -> [f EXCEPT !.currentX = f.currentX - 1]
      [] f.targetDirection = "north" -> [f EXCEPT !.currentZ = f.currentZ - 1]
      [] f.targetDirection = "south" -> [f EXCEPT !.currentZ = f.currentZ + 1]
      [] OTHER -> f

(* The advance of the scan cursor (fsm.cpp:199-213). *)
FSM_advanceScan(f) ==
    IF f.scanX + 1 <= f.scanEndX
    THEN [f EXCEPT !.scanX = f.scanX + 1]
    ELSE IF f.scanZ + 1 <= f.scanEndZ
    THEN [f EXCEPT !.scanX = f.scanStartX, !.scanZ = f.scanZ + 1]
    ELSE IF f.scanY + 1 <= f.scanEndY
    THEN [f EXCEPT !.scanX = f.scanStartX, !.scanZ = f.scanStartZ,
                   !.scanY = f.scanY + 1]
    ELSE FSM_changeDirection(
             [f EXCEPT !.scanX = f.scanStartX, !.scanZ = f.scanStartZ,
                       !.scanY = f.scanY + 1, !.scanningActive = FALSE])

(* FSM::handleBotFeedback; ok is read as in stepSuccessful (fsm.cpp:128-136) *)
FSM_handleBotFeedback(f, msg) ==
    IF ~contains(msg, "action") /\ ~contains(msg, "status") /\ ~contains(msg, "type")
    THEN f
    ELSE CASE f.state = "RequestPosition" ->
                IF FSM_positionAccepted(msg)
                THEN [FSM_readPosition(f, msg) EXCEPT !.state = "MoveToTarget"]
                ELSE f
           [] f.state = "MoveToTarget" ->
                IF contains(msg, "action") /\ msg.action = "step"
                THEN IF stepSuccessful(msg)
                     THEN FSM_applyDirection([f EXCEPT !.stepCount = f.stepCount + 1])
                     ELSE [f EXCEPT !.state = "RequestCurrentPosition"]
                ELSE f
           [] f.state = "RequestCurrentPosition" ->
                IF FSM_positionAccepted(msg)
                THEN [FSM_readPosition(f, msg) EXCEPT !.scanningActive = FALSE,
                                                      !.state = "ScanForBlocks"]
                ELSE f
           [] f.state = "ScanForBlocks" ->
                IF \/ contains(msg, "action") /\ msg.action = "block_at"
                   \/ contains(msg, "type") /\ msg.type = "block_at"
                THEN FSM_advanceScan(f)
                ELSE f
           [] OTHER -> f

(* The polling loop of main.cpp around the FSM, with a bot that may answer  *)
(* anything.                                                                *)
FsmPositionReplies ==
    { Json(Absent, "ok", Absent, Absent, Absent, FALSE, TRUE, Position3D(0, 64, 0)),
      Json(Absent, Absent, "position", Absent, Absent, TRUE, FALSE, Position3D(2, 63, -5)),
      Json(Absent, "ok", Absent, Absent, Absent, FALSE, FALSE, Origin) }

FsmStepReplies == { m \in StepReplies : m.ok \in {"bool_true", "bool_false", Absent} }

FsmMessages ==
    FsmPositionReplies \cup FsmStepReplies \cup ProbeReplies \cup UntaggedReplies

FsmInit ==
    /\ pf = PathFinderCtor
    /\ cmd = NullJson
    /\ reply = NoReply
    /\ pc = "produce"
    /\ tie = "any"
    /\ search = NoSearch
    /\ lastOp = "FSM"
    /\ stepReqs = 0
    /\ retargets = 0
    /\ world = NoWorld
    /\ fsm = FSMCtor

(* main.cpp:30-33: cmd = fsm.nextAction(); a null cmd skips the round trip. *)
(* History: asked is started anew with the first request of a scan and      *)
(* extended by every request that is not the repetition of an unanswered    *)
(* one.                                                                     *)
FsmProduce ==
    /\ pc = "produce"
    /\ \E r \in { FSM_nextAction(fsm) } :
          /\ fsm' = IF r.action.action # "block_at" THEN r.fsm
                    ELSE IF ~fsm.scanningActive
                    THEN [r.fsm EXCEPT !.asked = <<r.action.position>>]
                    ELSE IF reply.action = "block_at" \/ reply.type = "block_at"
                    THEN [r.fsm EXCEPT !.asked = Append(fsm.asked, r.action.position)]
                    ELSE r.fsm
          /\ cmd' = r.action
          /\ pc' = IF r.action = NullJson THEN "produce" ELSE "consume"
    /\ reply' = NoReply
    /\ lastOp' = "nextAction"
    /\ UNCHANGED <<pf, tie, search, stepReqs, retargets, world>>

(* main.cpp:40-49 *)
FsmConsume ==
    /\ pc = "consume"
    /\ \E msg \in FsmMessages :
          /\ reply' = msg
          /\ fsm' = FSM_handleBotFeedback(fsm, msg)
    /\ pc' = "produce"
    /\ lastOp' = "handleBotFeedback"
    /\ UNCHANGED <<pf, cmd, tie, search, stepReqs, retargets, world>>

(* main.cpp:50-53 *)
FsmCommunicationError ==
    /\ pc = "consume"
    /\ pc' = "exit"
    /\ UNCHANGED <<pf, cmd, reply, tie, search, lastOp, stepReqs, retargets, world, fsm>>

FsmNext == FsmProduce \/ FsmConsume \/ FsmCommunicationError

FsmSpec == FsmInit /\ [][FsmNext]_vars

----------------------------------------------------------------------------
(* Properties of findPath (SearchSpec) *)

Returned == search.phase = "returned"

Steps(path) == Len(path) - 1

InToleranceBox(c, goal) ==
    /\ c.x \in (goal.x - 2)..(goal.x + 2)
    /\ c.z \in (goal.z - 2)..(goal.z + 2)

CardinalStep(a, b) ==
    /\ a.y = b.y
    /\ \/ a.z = b.z /\ (b.x = a.x + 1 \/ b.x = a.x - 1)
       \/ a.x = b.x /\ (b.z = a.z + 1 \/ b.z = a.z - 1)

(* Cells reachable from start in at most k cardinal steps that avoid the    *)
(* obstacles.                                                               *)
RECURSIVE ReachableWithin(_, _, _)
ReachableWithin(start, obstacles, k) ==
    IF k = 0 THEN {start}
    ELSE LET r == ReachableWithin(start, obstacles, k - 1)
         IN r \cup { n \in UNION { { Position3D(c.x + 1, c.y, c.z),
                                     Position3D(c.x - 1, c.y, c.z),
                                     Position3D(c.x, c.y, c.z + 1),
                                     Position3D(c.x, c.y, c.z - 1) } : c \in r } :
                       n \notin obstacles }

(* C3: a non-empty path returned by findPath has the least number of steps  *)
(* of all obstacle-avoiding 4-neighbour paths from start to any cell that   *)
(* passes the goal-acceptance test, whatever node of least fCost top()      *)
(* yields.                                                                  *)
C3_ShortestToAcceptedCell ==
    (Returned /\ search.path # <<>> /\ Steps(search.path) >= 1) =>
        \A c \in ReachableWithin(search.start, search.knownObstacles,
                                 Steps(search.path) - 1) :
            ~(c = search.goal \/ InToleranceBox(c, search.goal))

C5_PathValid ==
    (Returned /\ search.path # <<>>) =>
        /\ search.path[1] = search.start
        /\ LET last == search.path[Len(search.path)]
           IN last = search.goal \/ InToleranceBox(last, search.goal)
        /\ \A i \in 1..Steps(search.path) :
              CardinalStep(search.path[i], search.path[i + 1])

C5_Witness ==
    /\ Returned
    /\ search.knownObstacles # {}
    /\ Steps(search.path) >= 3
    /\ \E i \in 1..Steps(search.path) : search.path[i + 1].x = search.path[i].x - 1
    /\ \E i \in 1..Steps(search.path) : search.path[i + 1].z = search.path[i].z + 1

(* C11: in example scenario 1, start (0,100,0), target (3,100,0), no        *)
(* obstacles, findPath returns exactly the 3-step path                      *)
(* (0,100,0),(1,100,0),(2,100,0),(3,100,0); the machine then emits "east"   *)
(* three times and is Done only after 3 successful steps.                   *)
C11_ScenarioOnePath ==
    (/\ Returned
     /\ search.start = ScenarioStart
     /\ search.goal = ScenarioGoal
     /\ search.knownObstacles = {}) =>
        search.path = << Position3D(0, 100, 0), Position3D(1, 100, 0),
                         Position3D(2, 100, 0), Position3D(3, 100, 0) >>


----------------------------------------------------------------------------
(* Properties of the state machine (Spec, ProtocolSpec) *)

Tracked == Position3D(pf.currentX, pf.currentY, pf.currentZ)

(* The step is a call of handleBotFeedback on reply'. *)
Consumes == pc = "consume" /\ lastOp' = "handleBotFeedback"

(* The step is a call of nextAction returning cmd'. *)
Produces == pc = "produce" /\ lastOp' = "nextAction"

(* C1: once a target is set and the loop alternates nextAction and          *)
(* handleBotFeedback, the machine reaches Done after emitting at most       *)
(* MAX_STEPS step requests, whatever the bot replies; so no run emits more  *)
(* than MAX_STEPS step requests for one target.                             *)
C1_DoneWithinStepBudget == stepReqs <= MAX_STEPS

(* C2: every path produced by findPath contains no cell that was in         *)
(* knownObstacles at the time of the search.                                *)
C2_NoObstacleOnPath ==
    \A i \in 1..Len(pf.currentPath) : pf.currentPath[i] \notin pf.searchedWith

(* The state right after the replan that ends a probe sequence; cmd is the  *)
(* head-level block_at request, one cell above the ground-level one.        *)
ReplannedAfterProbes ==
    /\ lastOp = "handleBotFeedback"
    /\ cmd.action = "block_at"
    /\ pf.state = "MoveToTarget"

ProbedCells == { cmd.position, [cmd.position EXCEPT !.y = cmd.position.y - 1] }

(* C2 (amended): every path produced by findPath contains no cell of        *)
(* knownObstacles after its first waypoint, the start cell; and the path    *)
(* planned at the end of a probe sequence contains none of the cells that   *)
(* the sequence added to knownObstacles.                                    *)
C2_NoObstacleAfterStart ==
    /\ \A i \in 2..Len(pf.currentPath) : pf.currentPath[i] \notin pf.searchedWith
    /\ ReplannedAfterProbes =>
          \A i \in 1..Len(pf.currentPath) :
              pf.currentPath[i] \notin (ProbedCells \cap pf.knownObstacles)

C2_Witness ==
    /\ ReplannedAfterProbes
    /\ pf.target = Position3D(3, 0, 0)
    /\ Tracked = Origin
    /\ Position3D(1, 0, 0) \in ProbedCells \cap pf.knownObstacles
    /\ Len(pf.currentPath) = 3

(* C6: consuming a block_at reply in MoveToTarget leaves the tracked         *)
(* position, the path cursor, the step counter and the state unchanged.     *)
C6_FeedbackIsolation ==
    [][(Consumes /\ pf.state = "MoveToTarget" /\ reply' \in ProbeReplies) =>
          /\ pf'.currentX = pf.currentX
          /\ pf'.currentY = pf.currentY
          /\ pf'.currentZ = pf.currentZ
          /\ pf'.currentPathIndex = pf.currentPathIndex
          /\ pf'.stepCount = pf.stepCount
          /\ pf'.state = pf.state]_vars

C6_Witness ==
    /\ lastOp = "handleBotFeedback"
    /\ cmd.action = "step"
    /\ reply \in ProbeReplies
    /\ reply.action = "block_at"
    /\ reply.name = "stone"
    /\ pf.state = "MoveToTarget"
    /\ pf.stepCount >= 1
    /\ pf.currentPathIndex >= 1

(* A message that lacks the fields the state expects. *)
Malformed(state, msg) ==
    CASE state \in {"RequestPosition", "RequestCurrentPosition"} ->
            msg \notin PositionReplies \/ ~(msg.hasPosition \/ msg.hasXYZ)
      [] state = "MoveToTarget" ->
            msg \notin StepReplies \/ msg.ok = Absent
      [] state = "CheckObstacle" ->
            msg \notin ProbeReplies
      [] OTHER -> TRUE

(* C7: a message that lacks the fields the current state expects changes    *)
(* neither the state, the tracked position, the path, the cursor, the step  *)
(* counter nor knownObstacles.                                              *)
C7_MalformedIsNoOp ==
    [][(Consumes /\ Malformed(pf.state, reply')) =>
          /\ pf'.state = pf.state
          /\ pf'.currentX = pf.currentX
          /\ pf'.currentY = pf.currentY
          /\ pf'.currentZ = pf.currentZ
          /\ pf'.currentPath = pf.currentPath
          /\ pf'.currentPathIndex = pf.currentPathIndex
          /\ pf'.stepCount = pf.stepCount
          /\ pf'.knownObstacles = pf.knownObstacles]_vars

(* C8: isAtTarget is true exactly when the tracked x and z are both within  *)
(* 2 of the target's, whatever y is.                                        *)
C8_ToleranceCheck ==
    pf.hasTarget => (isAtTarget(pf) <=> InToleranceBox(Tracked, pf.target))

C8_Witness ==
    /\ pf.hasTarget
    /\ pf.state = "MoveToTarget"
    /\ ~isAtTarget(pf)
    /\ pf.currentX = pf.target.x
    /\ pf.currentZ = pf.target.z + 3
    /\ pf.currentY # pf.target.y

(* C9: no step request is outstanding while the tracked position is inside  *)
(* the tolerance box; nextAction called in MoveToTarget inside the box      *)
(* returns no request and moves to Done; and when the initial position      *)
(* reply is accepted no step request has been emitted for the target.       *)
C9_NoStepInsideBox ==
    /\ []((pc = "consume" /\ cmd.action = "step") => ~InToleranceBox(Tracked, pf.target))
    /\ []((lastOp = "handleBotFeedback" /\ cmd.action = "position"
             /\ pf.state = "MoveToTarget") => stepReqs = 0)
    /\ [][(Produces /\ pf.state = "MoveToTarget" /\ InToleranceBox(Tracked, pf.target)) =>
              /\ cmd' = NullJson
              /\ pc' = "produce"
              /\ stepReqs' = stepReqs
              /\ pf'.state = "Done"]_vars

C9_Witness ==
    /\ lastOp = "nextAction"
    /\ pf.state = "Done"
    /\ InToleranceBox(Tracked, pf.target)
    /\ Tracked = Position3D(1, 0, 0)
    /\ pf.target = Position3D(3, 0, 0)
    /\ stepReqs = 0
    /\ pf.stepCount = 0
    /\ retargets = 1

FailedStepReply(msg) ==
    msg \in StepReplies /\ (msg.ok = "bool_false" \/ msg.ok = "str_false")

(* C10: a failed step reply consumed in MoveToTarget leads to               *)
(* RequestCurrentPosition with tracked position and step counter unchanged; *)
(* there nextAction emits a position query, the reply to it sets the        *)
(* tracked position and leads to CheckObstacle, and block_at requests are   *)
(* emitted from CheckObstacle only, which is entered in no other way.       *)
C10_FailedStepOrdering ==
    [][/\ (Consumes /\ pf.state = "MoveToTarget" /\ FailedStepReply(reply')) =>
              /\ pf'.state = "RequestCurrentPosition"
              /\ pf'.currentX = pf.currentX
              /\ pf'.currentY = pf.currentY
              /\ pf'.currentZ = pf.currentZ
              /\ pf'.stepCount = pf.stepCount
       /\ (Produces /\ pf.state = "RequestCurrentPosition") =>
              /\ cmd' = PositionRequest
              /\ pf'.state = "RequestCurrentPosition"
       /\ (Consumes /\ pf.state = "RequestCurrentPosition") =>
              /\ cmd = PositionRequest
              /\ pf'.state = "CheckObstacle"
              /\ Position3D(pf'.currentX, pf'.currentY, pf'.currentZ) = reply'.at
       /\ (pf'.state = "CheckObstacle" /\ pf.state # "CheckObstacle") =>
              (Consumes /\ pf.state = "RequestCurrentPosition")
       /\ (Produces /\ cmd'.action = "block_at") => pf.state = "CheckObstacle"
      ]_vars

C10_Witness ==
    /\ pc = "consume"
    /\ cmd.action = "block_at"
    /\ pf.state = "CheckObstacle"
    /\ pf.obstacleCheckCount = 0
    /\ pf.stepCount >= 1
    /\ Tracked = Position3D(0, 0, -1)

(* The step consumes a block_at reply in CheckObstacle. *)
ConsumesProbeReply ==
    Consumes /\ pf.state = "CheckObstacle" /\ reply' \in ProbeReplies

(* The outstanding request asks about the front cell of the current slot. *)
ProbeOutstanding ==
    /\ cmd.action = "block_at"
    /\ cmd.position = getFrontBlockPosition(pf, pf.obstacleCheckCount = 1)

(* C12: in CheckObstacle a probe reply with a name field adds exactly the   *)
(* cell of the outstanding block_at request, the front cell of the current  *)
(* slot, to knownObstacles and leaves needsReplan set; a probe reply        *)
(* without a name field leaves knownObstacles unchanged.                    *)
C12_ObstacleDiscovery ==
    [][ConsumesProbeReply =>
          /\ ProbeOutstanding
          /\ IF contains(reply', "name")
             THEN /\ pf'.knownObstacles = pf.knownObstacles \cup {cmd.position}
                  /\ pf'.needsReplan
             ELSE pf'.knownObstacles = pf.knownObstacles]_vars

(* C12 (amended): as C12, but needsReplan is left set only by the reply to  *)
(* the ground-level probe; the reply to the head-level probe ends the       *)
(* sequence with planPath, which searches with the cell added and clears    *)
(* needsReplan in the same call.                                            *)
C12_ObstacleDiscoveryThenReplan ==
    [][ConsumesProbeReply =>
          /\ ProbeOutstanding
          /\ IF contains(reply', "name")
             THEN /\ pf'.knownObstacles = pf.knownObstacles \cup {cmd.position}
                  /\ IF pf.obstacleCheckCount = 0
                     THEN pf'.needsReplan /\ pf'.state = "CheckObstacle"
                     ELSE /\ ~pf'.needsReplan
                          /\ pf'.state = "MoveToTarget"
                          /\ pf'.searchedWith = pf'.knownObstacles
             ELSE pf'.knownObstacles = pf.knownObstacles]_vars

C12_Witness ==
    /\ lastOp = "handleBotFeedback"
    /\ reply \in ProbeReplies
    /\ reply.name = "stone"
    /\ cmd = BlockAtRequest(1, 1, 0)
    /\ pf.state = "MoveToTarget"
    /\ pf.knownObstacles = { Position3D(1, 0, 0), Position3D(1, 1, 0) }
    /\ ~pf.needsReplan

(* C13: no step removes a cell from knownObstacles, and knownObstacles      *)
(* changes only when a block_at reply with a name field is consumed in      *)
(* CheckObstacle: not on setTarget, position replies, step replies or       *)
(* replans.                                                                 *)
C13_ObstaclesAppendOnly ==
    [][/\ pf.knownObstacles \subseteq pf'.knownObstacles
       /\ pf'.knownObstacles # pf.knownObstacles =>
              /\ ConsumesProbeReply
              /\ contains(reply', "name")]_vars

C13_Witness ==
    /\ lastOp = "setTarget"
    /\ retargets = 2
    /\ pf.state = "MoveToTarget"
    /\ pf.stepCount = 0
    /\ pf.currentPath = <<>>
    /\ pf.searchedWith # {}
    /\ pf.knownObstacles = { Position3D(1, 0, 0), Position3D(0, 0, -1) }

(* C14: nextAction returns one request or none; a request is outstanding    *)
(* only between the nextAction call that returned it and the one            *)
(* handleBotFeedback call that consumes its reply: nextAction is not called *)
(* while a request is outstanding, a non-null request is followed by        *)
(* handleBotFeedback before the next nextAction, and a null one by no       *)
(* handleBotFeedback.                                                       *)
C14_OneOutstandingRequest ==
    /\ [](pc = "consume" => (lastOp = "nextAction" /\ cmd # NullJson))
    /\ [](lastOp = "handleBotFeedback" => pc = "produce")
    /\ [][/\ Produces =>
                 /\ pc' = "consume" <=> cmd' # NullJson
                 /\ lastOp = "nextAction" => cmd = NullJson
          /\ Consumes =>
                 /\ lastOp = "nextAction"
                 /\ cmd # NullJson
                 /\ cmd' = cmd
                 /\ pc' = "produce"]_vars

C14_Witness ==
    /\ lastOp = "nextAction"
    /\ cmd = NullJson
    /\ pc = "produce"
    /\ pf.state = "Done"
    /\ pf.stepCount >= 2
    /\ stepReqs >= 3

(* C15: from Done on, the state stays Done, every nextAction returns the    *)
(* null action and every handleBotFeedback, whatever the message, leaves    *)
(* the state, the tracked position, the path, the cursor, the step counter  *)
(* and knownObstacles unchanged.                                            *)
C15_DoneIsTerminal ==
    [][pf.state = "Done" =>
          /\ pf'.state = "Done"
          /\ lastOp' = "nextAction" => (cmd' = NullJson /\ pc' = "produce")
          /\ lastOp' = "handleBotFeedback" =>
                 /\ pf'.currentX = pf.currentX
                 /\ pf'.currentY = pf.currentY
                 /\ pf'.currentZ = pf.currentZ
                 /\ pf'.currentPath = pf.currentPath
                 /\ pf'.currentPathIndex = pf.currentPathIndex
                 /\ pf'.stepCount = pf.stepCount
                 /\ pf'.knownObstacles = pf.knownObstacles]_vars

C15_Witness ==
    /\ pf.state = "Done"
    /\ lastOp = "handleBotFeedback"
    /\ reply \in StepReplies
    /\ reply.ok = "bool_true"
    /\ retargets = 2
    /\ pf.currentPath = <<>>
    /\ pf.knownObstacles # {}

(* C16: the machine exposes a boolean status that, once Done, is true       *)
(* exactly when the tracked position is inside the target's tolerance box   *)
(* and false when Done was entered through step-budget exhaustion or an     *)
(* empty path.  Stated for the first target of a run.                       *)
C16_SuccessExposed ==
    (pf.state = "Done" /\ retargets = 1) =>
        \E f \in DOMAIN ExposedStatus(pf) :
            ExposedStatus(pf)[f] <=> InToleranceBox(Tracked, pf.target)

SuccessfulStepReply(msg) ==
    msg \in StepReplies /\ (msg.ok = "bool_true" \/ msg.ok = "str_true")

(* The (x,z) unit delta of a direction. *)
UnitDelta(d) ==
    CASE d = "east"  -> <<1, 0>>
      [] d = "west"  -> <<-1, 0>>
      [] d = "south" -> <<0, 1>>
      [] d = "north" -> <<0, -1>>

(* C17: consuming a step reply with ok true (boolean or string) in          *)
(* MoveToTarget adds one to stepCount, moves the tracked position by the    *)
(* unit delta of the direction of the outstanding step request, leaves y    *)
(* alone and stays in MoveToTarget.                                         *)
C17_StepSuccessUpdate ==
    [][(Consumes /\ pf.state = "MoveToTarget" /\ SuccessfulStepReply(reply')) =>
          /\ cmd.action = "step"
          /\ pf'.stepCount = pf.stepCount + 1
          /\ pf'.currentX = pf.currentX + UnitDelta(cmd.dir)[1]
          /\ pf'.currentZ = pf.currentZ + UnitDelta(cmd.dir)[2]
          /\ pf'.currentY = pf.currentY
          /\ pf'.state = "MoveToTarget"]_vars

C17_Witness ==
    /\ lastOp = "handleBotFeedback"
    /\ reply \in StepReplies
    /\ reply.ok = "str_true"
    /\ cmd = StepRequest("south")
    /\ pf.state = "MoveToTarget"
    /\ pf.stepCount = 2
    /\ Tracked = Position3D(1, 0, 0)
    /\ pf.currentDirection = "west"

ManhattanXZ(a, b) == abs(a.x - b.x) + abs(a.z - b.z)

(* C18: the direction of every step request nextAction returns in           *)
(* MoveToTarget is the one calculateDirectionToNextWaypoint yields for the  *)
(* waypoint at the cursor as that call leaves it, so that the step, if it   *)
(* succeeds, strictly reduces the (x,z) Manhattan distance from the tracked *)
(* position to that waypoint; also for the first step after a (re)plan      *)
(* and for the step right after a waypoint is reached.                      *)
C18_StepsHeadForWaypoint ==
    [][(Produces /\ cmd'.action = "step") =>
          /\ cmd'.dir = calculateDirectionToNextWaypoint(pf')
          /\ LET from == Position3D(pf'.currentX, pf'.currentY, pf'.currentZ)
                 d == UnitDelta(cmd'.dir)
                 to == Position3D(from.x + d[1], from.y, from.z + d[2])
             IN ManhattanXZ(to, Waypoint(pf')) < ManhattanXZ(from, Waypoint(pf'))]_vars

(* The direction for the offset (dx, dz) with ties going to the x-axis. *)
PolicyDirection(dx, dz) ==
    IF abs(dx) >= abs(dz)
    THEN (IF dx > 0 THEN "east" ELSE "west")
    ELSE (IF dz > 0 THEN "south" ELSE "north")

(* C19: for a tracked position and a cursor waypoint with a non-zero (x,z)  *)
(* offset, calculateDirectionToNextWaypoint picks the axis with the larger  *)
(* absolute offset, east/west by the sign of dx and south/north by the sign *)
(* of dz, and the x-axis when |dx| = |dz|.                                  *)
C19_DirectionPolicy ==
    (pf.currentPath # <<>> /\ pf.currentPathIndex < Len(pf.currentPath)) =>
        LET dx == Waypoint(pf).x - pf.currentX
            dz == Waypoint(pf).z - pf.currentZ
        IN (dx # 0 \/ dz # 0) =>
              calculateDirectionToNextWaypoint(pf) = PolicyDirection(dx, dz)

(* The step calls planPath: from nextAction in MoveToTarget, or from        *)
(* handleBotFeedback on the way to MoveToTarget.                            *)
Replans ==
    \/ /\ Produces
       /\ pf.hasTarget
       /\ pf.state = "MoveToTarget"
       /\ ~isAtTarget(pf)
       /\ pf.stepCount < MAX_STEPS
       /\ \/ pf.needsReplan
          \/ pf.currentPath = <<>>
          \/ pf.currentPathIndex >= Len(pf.currentPath)
    \/ /\ Consumes
       /\ pf.state \in {"RequestPosition", "CheckObstacle"}
       /\ pf'.state = "MoveToTarget"

(* The step is a call of setTarget. *)
Retargets == pc = "produce" /\ lastOp' = "setTarget" /\ retargets' = retargets + 1

CursorInPath ==
    pf.currentPath # <<>> => pf.currentPathIndex \in 0..(Len(pf.currentPath) - 1)

(* The cursor moves by one, in nextAction in MoveToTarget, from a waypoint  *)
(* the tracked (x,z) equals and that is not the last.                       *)
CursorAdvance ==
    /\ pf'.currentPathIndex = pf.currentPathIndex + 1
    /\ Produces
    /\ pf.state = "MoveToTarget"
    /\ isAtCurrentWaypoint(pf)
    /\ pf.currentPathIndex < Len(pf.currentPath) - 1

(* C20: between two replans the cursor never decreases; it changes only by  *)
(* advancing by one in a nextAction call in MoveToTarget when the tracked   *)
(* (x,z) equals the cursor waypoint's and the cursor is not at the last     *)
(* waypoint; it is reset to 0 only when a replan replaces the path; and     *)
(* while the path is non-empty the cursor is within 0..length-1.            *)
C20_CursorDiscipline ==
    /\ []CursorInPath
    /\ [][/\ pf'.currentPathIndex < pf.currentPathIndex => Replans
          /\ (~Replans /\ pf'.currentPathIndex # pf.currentPathIndex) => CursorAdvance
          /\ Replans => pf'.currentPathIndex \in {0, 1}]_vars

(* C20 (amended): as C20, except that setTarget, which empties the path,    *)
(* also resets the cursor to 0, without a replan.                           *)
C20_CursorDisciplinePerPath ==
    /\ []CursorInPath
    /\ [][/\ pf'.currentPathIndex < pf.currentPathIndex => (Replans \/ Retargets)
          /\ (~Replans /\ ~Retargets /\ pf'.currentPathIndex # pf.currentPathIndex) =>
                 CursorAdvance
          /\ Replans => pf'.currentPathIndex \in {0, 1}
          /\ Retargets => (pf'.currentPathIndex = 0 /\ pf'.currentPath = <<>>)]_vars

C20_Witness ==
    /\ lastOp = "nextAction"
    /\ pc = "consume"
    /\ cmd.action = "step"
    /\ pf.currentPathIndex = 2
    /\ Len(pf.currentPath) = 3
    /\ pf.stepCount = 1
    /\ retargets = 2

(* A position reply the handler accepts and that carries coordinates. *)
ValidPositionReply(msg) ==
    /\ msg.status = "ok" \/ msg.type = "position"
    /\ msg.hasPosition \/ msg.hasXYZ

TaggedBlockAt(msg) ==
    \/ contains(msg, "action") /\ msg.action = "block_at"
    \/ contains(msg, "type") /\ msg.type = "block_at"

Probing == {"RequestCurrentPosition", "CheckObstacle"}

(* C21: a failed step keeps its direction through the position query and    *)
(* the probes; a valid position reply (x,y,z) in RequestCurrentPosition     *)
(* resets obstacleCheckCount to 0; in CheckObstacle nextAction asks for the *)
(* ground-level front cell (x+dx, y, z+dz) in slot 0 and the head-level     *)
(* front cell (x+dx, y+1, z+dz) in slot 1; the slot advances only on a      *)
(* reply tagged block_at; and the second such reply replaces the path by a  *)
(* new search, sets the cursor to 0 and leads to MoveToTarget, with or      *)
(* without a name in the replies.                                           *)
C21_ProbeSequence ==
    [][/\ (Consumes /\ pf.state = "MoveToTarget"
                    /\ pf'.state = "RequestCurrentPosition") =>
              pf'.currentDirection = cmd.dir
       /\ (pf.state \in Probing /\ pf'.state \in Probing) =>
              pf'.currentDirection = pf.currentDirection
       /\ (Consumes /\ pf.state = "RequestCurrentPosition"
                    /\ ValidPositionReply(reply')) =>
              /\ pf'.state = "CheckObstacle"
              /\ pf'.obstacleCheckCount = 0
              /\ Position3D(pf'.currentX, pf'.currentY, pf'.currentZ) = reply'.at
       /\ (Produces /\ pf.state = "CheckObstacle") =>
              /\ pf' = pf
              /\ pf.obstacleCheckCount \in {0, 1}
              /\ cmd' = BlockAtRequest(
                            pf.currentX + UnitDelta(pf.currentDirection)[1],
                            pf.currentY + pf.obstacleCheckCount,
                            pf.currentZ + UnitDelta(pf.currentDirection)[2])
       /\ (Consumes /\ pf.state = "CheckObstacle") =>
              IF TaggedBlockAt(reply')
              THEN IF pf.obstacleCheckCount = 0
                   THEN /\ pf'.state = "CheckObstacle"
                        /\ pf'.obstacleCheckCount = 1
                        /\ pf'.currentPath = pf.currentPath
                   ELSE /\ pf'.state = "MoveToTarget"
                        /\ pf'.currentPathIndex = 0
                        /\ pf'.currentPath =
                              findPath(Tracked, pf.target, pf'.knownObstacles, tie)
              ELSE pf' = pf]_vars

C21_Witness ==
    /\ lastOp = "handleBotFeedback"
    /\ pf.state = "MoveToTarget"
    /\ cmd = BlockAtRequest(pf.currentX - 1, pf.currentY + 1, pf.currentZ)
    /\ reply \in ProbeReplies
    /\ reply.name = Absent
    /\ pf.knownObstacles = {}
    /\ pf.currentPathIndex = 0
    /\ pf.stepCount >= 1

(* A position reply as the specification describes it: status or type is   *)
(* "position" and x, y, z are present at top level or under position.      *)
DescribedPositionReply(msg) ==
    /\ msg \in PositionReplies
    /\ msg.status = "position" \/ msg.type = "position"
    /\ msg.hasPosition \/ msg.hasXYZ

(* C22: in RequestPosition and RequestCurrentPosition a reply whose status  *)
(* or type is "position" and that carries x, y, z is accepted: the tracked  *)
(* position becomes the reported cell and the state becomes MoveToTarget    *)
(* (after planning from that cell), respectively CheckObstacle; every other *)
(* reply leaves the object unchanged.                                       *)
C22_PositionAcceptance ==
    [][(Consumes /\ pf.state \in {"RequestPosition", "RequestCurrentPosition"}) =>
          IF DescribedPositionReply(reply')
          THEN /\ Position3D(pf'.currentX, pf'.currentY, pf'.currentZ) = reply'.at
               /\ pf'.state = IF pf.state = "RequestPosition"
                               THEN "MoveToTarget" ELSE "CheckObstacle"
               /\ pf.state = "RequestPosition" =>
                      pf'.currentPath =
                          findPath(reply'.at, pf.target, pf.knownObstacles, tie)
          ELSE pf' = pf]_vars

C24_StepBudget ==
    [][/\ pf.stepCount <= MAX_STEPS /\ pf'.stepCount <= MAX_STEPS
       /\ (Produces /\ pf.state = "MoveToTarget" /\ pf.stepCount >= MAX_STEPS
                    /\ ~isAtTarget(pf)) =>
              /\ cmd' = NullJson
              /\ pf'.state = "Done"
              /\ pf'.stepCount = pf.stepCount
       /\ Retargets => pf'.stepCount = 0
       /\ pf'.stepCount < pf.stepCount => Retargets]_vars

(* Done by budget: the counter is at MAX_STEPS, the box is three or more   *)
(* cells away on some axis.                                                 *)
C24_Witness ==
    /\ pf.state = "Done"
    /\ lastOp = "nextAction"
    /\ cmd = NullJson
    /\ pf.stepCount = MAX_STEPS
    /\ ~isAtTarget(pf)
    /\ pf.currentPath # <<>>

(* The initial position reply has been consumed. *)
Seeded == pf.state \notin {"Idle", "RequestPosition"}

(* C25: against the truthful world, in every state after the initial       *)
(* position reply was consumed the tracked position is the agent's real    *)
(* cell, and the tracked position changes only when handleBotFeedback      *)
(* consumes an accepted position reply with coordinates or a successful    *)
(* step reply.                                                              *)
C25_TrackedRefinesWorld ==
    [][/\ Seeded' => Tracked' = world'.agent
       /\ Tracked' # Tracked =>
              /\ Consumes
              /\ \/ /\ pf.state \in {"RequestPosition", "RequestCurrentPosition"}
                    /\ ValidPositionReply(reply')
                 \/ /\ pf.state = "MoveToTarget"
                    /\ SuccessfulStepReply(reply')]_vars

(* The agent has moved, was stopped by a block, and the tracked cell is     *)
(* its real cell, away from the start.                                      *)
C25_Witness ==
    /\ Seeded
    /\ pf.stepCount >= 1
    /\ pf.knownObstacles # {}
    /\ Tracked = world.agent
    /\ world.agent \notin WorldStarts

(* C26: whenever nextAction has emitted a step request, the destination     *)
(* cell (tracked position plus the unit delta of the emitted direction, at  *)
(* the tracked y) is not in knownObstacles.                                 *)
C26_NoStepIntoKnownObstacle ==
    (pc = "consume" /\ cmd.action = "step") =>
        Destination(Tracked, cmd.dir) \notin pf.knownObstacles

(* C27: in a world without blocks, where every step succeeds, for every     *)
(* start and target well within the step budget the polling loop            *)
(* eventually reaches Done with the tracked position (which is the agent's  *)
(* cell) inside the tolerance box of the target, and Done is never entered  *)
(* outside the box (not by the budget, not by an empty path).               *)
C27_TargetReachedInFreeWorld ==
    /\ <>(pf.state = "Done" /\ isAtTarget(pf) /\ Tracked = world.agent)
    /\ [](pf.state = "Done" => (isAtTarget(pf) /\ Tracked = world.agent))

(* Arrival after the whole budget was walked. *)
C27_Witness ==
    /\ pf.state = "Done"
    /\ world.blocks = {}
    /\ isAtTarget(pf)
    /\ Tracked = world.agent
    /\ pf.stepCount >= 3
    /\ pf.currentPath # <<>>

(* C28: setTarget changes the state only from Idle, to RequestPosition; in  *)
(* every state it replaces the target, clears the path, sets the cursor    *)
(* and the step counter to 0 and sets needsReplan, and leaves everything    *)
(* else as it was; so a machine that is Done stays Done through setTarget, *)
(* isComplete stays true, and every later nextAction returns no request.    *)
C28_SetTargetDoesNotRestart ==
    [][/\ Retargets =>
              \E tgt \in Targets :
                 pf' = [pf EXCEPT !.target = tgt,
                                  !.hasTarget = TRUE,
                                  !.stepCount = 0,
                                  !.currentPath = <<>>,
                                  !.currentPathIndex = 0,
                                  !.needsReplan = TRUE,
                                  !.state = IF pf.state = "Idle"
                                            THEN "RequestPosition" ELSE pf.state]
       /\ (pf'.state = "RequestPosition" /\ pf.state # "RequestPosition") =>
              (Retargets /\ pf.state = "Idle")
       /\ pf.state = "Done" =>
              /\ pf'.state = "Done"
              /\ isComplete(pf')
              /\ Produces => cmd' = NullJson]_vars

(* setTarget has just been called on a machine that was Done, with a target *)
(* the tracked position is not at.                                         *)
C28_Witness ==
    /\ lastOp = "setTarget"
    /\ retargets = 2
    /\ pf.state = "Done"
    /\ isComplete(pf)
    /\ ~isAtTarget(pf)
    /\ pf.needsReplan
    /\ pf.currentPath = <<>>
    /\ pf.stepCount = 0

----------------------------------------------------------------------------
(* Properties of the FSM (FsmSpec) *)

FsmTracked == Position3D(fsm.currentX, fsm.currentY, fsm.currentZ)

FsmCursor == Position3D(fsm.scanX, fsm.scanY, fsm.scanZ)

Side == 2 * SCAN_RADIUS + 1

CubeSize == Side * Side * Side

(* The cells of the cube around c, x fastest, then z, then y. *)
CubeOrder(c) ==
    [k \in 1..CubeSize |->
        Position3D(c.x - SCAN_RADIUS + ((k - 1) % Side),
                   c.y - SCAN_RADIUS + ((k - 1) \div (Side * Side)),
                   c.z - SCAN_RADIUS + (((k - 1) \div Side) % Side))]

Rotate(d) ==
    CASE d = "east" -> "south"
      [] d = "south" -> "west"
      [] d = "west" -> "north"
      [] d = "north" -> "east"

====
